---- MODULE Spec2Model ----
(***************************************************************************)
(* Model of bogoDB/candidate_submission/optimize_graph.py: the ring-layout *)
(* graph generator, its query analyzer, its constraint validator and the   *)
(* script that loads, builds and saves.                                    *)
(*                                                                         *)
(* Python values are modelled as follows.                                   *)
(*   dict      a function from its key set to its values (dict equality     *)
(*             ignores insertion order); d[k] = v is DictSet, and reading   *)
(*             d[k] for a missing key raises KeyError                       *)
(*   Counter   the sequence of <<key, count>> pairs in insertion order,     *)
(*             which is the order .items() yields and sorted() starts from  *)
(*   str(i)    the decimal numeral of i, built digit by digit               *)
(*   float     the weights 10.0, 8.0, 1.0, 9.0 are whole numbers and are    *)
(*             kept as integers                                             *)
(*   a call    Return(v) when it returns v, Raise(e) when it raises e       *)
(***************************************************************************)
EXTENDS Integers, Sequences, FiniteSets, TLC

VARIABLES
    NUM_NODES,            \* scripts.constants.NUM_NODES
    MAX_EDGES_PER_NODE,   \* scripts.constants.MAX_EDGES_PER_NODE
    MAX_TOTAL_EDGES,      \* scripts.constants.MAX_TOTAL_EDGES, counted in halves
    pc,                   \* position of the script, or of the calling harness
    files,                \* what the script finds on disk
    initial_graph,        \* the script's initial_graph
    results,              \* the script's results
    optimized_graph,      \* the script's optimized_graph
    output_file,          \* content written to optimized_graph.json
    exit_code,            \* exit status of the process: {} while it runs, then {status}
    stdout,               \* the progress lines printed so far
    args,                 \* arguments of the (first) call of the function under study
    ret,                  \* its outcome
    args2,                \* arguments of a second call of optimize_graph
    ret2                  \* its outcome

vars == <<NUM_NODES, MAX_EDGES_PER_NODE, MAX_TOTAL_EDGES, pc, files, initial_graph,
          results, optimized_graph, output_file, exit_code, stdout, args, ret,
          args2, ret2>>

configVars == <<NUM_NODES, MAX_EDGES_PER_NODE, MAX_TOTAL_EDGES>>
scriptVars == <<files, initial_graph, results, optimized_graph, output_file,
                exit_code, stdout>>
callVars == <<args, ret, args2, ret2>>

----------------------------------------------------------------------------
(* Constants of the module, lines 21-28. *)

INNER_RING_SIZE == 10
MEDIUM_RING_SIZE == 50
PRIMARY_WEIGHT == 10
SECONDARY_WEIGHT == 8
BACKUP_WEIGHT == 1
MEDIUM_RING_LOOPBACK_WEIGHT == 9

----------------------------------------------------------------------------
(* Python values. *)

Return(v) == [raised |-> "None", value |-> v]
Raise(e) == [raised |-> e]
Returned(r) == r.raised = "None"

Digits == <<"0", "1", "2", "3", "4", "5", "6", "7", "8", "9">>

\* str(i) for an int i >= 0
RECURSIVE Str(_)
Str(i) == IF i < 10 THEN Digits[i + 1] ELSE Str(i \div 10) \o Digits[(i % 10) + 1]

\* int(x) for a number given in halves: truncation towards zero
PyInt(halves) == IF halves >= 0 THEN halves \div 2 ELSE -((-halves) \div 2)

EmptyDict == [k \in {} |-> 0]

\* d[k] = v
DictSet(d, k, v) == [x \in (DOMAIN d) \cup {k} |-> IF x = k THEN v ELSE d[x]]

\* len(d)
DictLen(d) == Cardinality(DOMAIN d)

RECURSIVE SumOver(_, _)
SumOver(f, S) ==
    IF S = {} THEN 0
    ELSE LET x == CHOOSE y \in S : TRUE IN f[x] + SumOver(f, S \ {x})

\* max() of a non-empty set of ints
MaxOf(S) == CHOOSE m \in S : \A x \in S : x <= m

\* sum(len(edges) for edges in graph.values())
TotalEdges(graph) == SumOver([n \in DOMAIN graph |-> DictLen(graph[n])], DOMAIN graph)

----------------------------------------------------------------------------
(* verify_constraints, lines 97-136.  NUM_NODES is the imported global. *)

InvalidWeight(weight) == weight <= 0 \/ weight > 10

\* verify_constraints without its "all nodes are present" check
VerifyConstraints_NoNodeCount(graph, max_edges_per_node, max_total_edges) ==
    IF TotalEdges(graph) > max_total_edges THEN Return(FALSE)
    ELSE IF DOMAIN graph = {} THEN Raise("ValueError")
    ELSE IF MaxOf({DictLen(graph[n]) : n \in DOMAIN graph}) > max_edges_per_node
        THEN Return(FALSE)
    ELSE IF \E node \in DOMAIN graph : \E target \in DOMAIN graph[node] :
                InvalidWeight(graph[node][target])
        THEN Return(FALSE)
    ELSE Return(TRUE)

VerifyConstraints(graph, max_edges_per_node, max_total_edges) ==
    IF TotalEdges(graph) > max_total_edges THEN Return(FALSE)
    ELSE IF DOMAIN graph = {} THEN Raise("ValueError")  \* max() of an empty sequence
    ELSE IF MaxOf({DictLen(graph[n]) : n \in DOMAIN graph}) > max_edges_per_node
        THEN Return(FALSE)
    ELSE IF DictLen(graph) # NUM_NODES THEN Return(FALSE)
    ELSE IF \E node \in DOMAIN graph : \E target \in DOMAIN graph[node] :
                InvalidWeight(graph[node][target])
        THEN Return(FALSE)
    ELSE Return(TRUE)

----------------------------------------------------------------------------
(* analyze_query_patterns, lines 139-170. *)

\* [r["target"] for r in results["detailed_results"]]
QueryTargets(res) ==
    [i \in 1..Len(res.detailed_results) |-> res.detailed_results[i].target]

\* Counter(query_targets): one more occurrence of t
CounterAdd(counter, t) ==
    IF \E i \in 1..Len(counter) : counter[i][1] = t
    THEN [i \in 1..Len(counter) |->
            IF counter[i][1] = t THEN <<t, counter[i][2] + 1>> ELSE counter[i]]
    ELSE Append(counter, <<t, 1>>)

RECURSIVE CounterOf(_)
CounterOf(targets) ==
    IF targets = << >> THEN << >>
    ELSE CounterAdd(CounterOf(SubSeq(targets, 1, Len(targets) - 1)),
                    targets[Len(targets)])

\* a sort that is not stable: item goes ahead of the items of equal count
InsertByFreq_Unstable(sorted, item) ==
    LET ahead == {i \in 1..Len(sorted) : sorted[i][2] > item[2]}
        k == IF ahead = {} THEN 0 ELSE MaxOf(ahead)
    IN SubSeq(sorted, 1, k) \o <<item>> \o SubSeq(sorted, k + 1, Len(sorted))

\* one step of the stable sort by count, descending: item goes behind every
\* item already placed whose count is at least its own
InsertByFreq(sorted, item) ==
    LET ahead == {i \in 1..Len(sorted) : sorted[i][2] >= item[2]}
        k == IF ahead = {} THEN 0 ELSE MaxOf(ahead)
    IN SubSeq(sorted, 1, k) \o <<item>> \o SubSeq(sorted, k + 1, Len(sorted))

\* sorted(target_frequencies.items(), key=lambda x: x[1], reverse=True)
RECURSIVE SortedByFreq(_)
SortedByFreq(items) ==
    IF items = << >> THEN << >>
    ELSE InsertByFreq(SortedByFreq(SubSeq(items, 1, Len(items) - 1)),
                      items[Len(items)])

IsHighValue(item) == item[2] >= 2

\* [target for target, freq in sorted_targets if freq >= 2]
HighValueTargets(sorted_targets) ==
    LET kept == SelectSeq(sorted_targets, IsHighValue)
    IN [i \in 1..Len(kept) |-> kept[i][1]]

AnalyzeQueryPatterns(res) ==
    LET query_targets == QueryTargets(res)
        target_frequencies == CounterOf(query_targets)
        sorted_targets == SortedByFreq(target_frequencies)
        high_value_targets == HighValueTargets(sorted_targets)
    IN IF query_targets = << >> THEN Raise("ValueError")  \* max() of an empty list
       ELSE Return([target_frequencies |-> target_frequencies,
                    high_value_targets |-> high_value_targets,
                    max_queried_node |->
                        MaxOf({query_targets[i] : i \in 1..Len(query_targets)})])

----------------------------------------------------------------------------
(* optimize_graph, lines 173-271.  The graph under construction is carried  *)
(* as Return(graph), or as Raise("KeyError") once a write has addressed a    *)
(* node that is not a key of optimized_graph.                                *)

\* {str(i): {} for i in range(num_nodes)}
FreshGraph(num_nodes) == [k \in {Str(i) : i \in 0..(num_nodes - 1)} |-> EmptyDict]

\* optimized_graph[node_str][target] = weight
SetEdge(st, node_str, target, weight) ==
    IF ~Returned(st) THEN st
    ELSE IF node_str \notin DOMAIN st.value THEN Raise("KeyError")
    ELSE Return([st.value EXCEPT ![node_str] = DictSet(@, target, weight)])

\* body of the inner-ring loop, lines 212-220
InnerRingNode(st, node_index) ==
    IF node_index < INNER_RING_SIZE - 1
    THEN SetEdge(st, Str(node_index), Str(node_index + 1), PRIMARY_WEIGHT)
    ELSE SetEdge(st, Str(node_index), Str(INNER_RING_SIZE), SECONDARY_WEIGHT)

\* for node_index in range(INNER_RING_SIZE), from node_index on
RECURSIVE InnerRing(_, _)
InnerRing(st, node_index) ==
    IF node_index >= INNER_RING_SIZE \/ ~Returned(st) THEN st
    ELSE InnerRing(InnerRingNode(st, node_index), node_index + 1)

\* line 239
SkipTarget(node_index) ==
    INNER_RING_SIZE
        + ((node_index - INNER_RING_SIZE + 3) % (MEDIUM_RING_SIZE - INNER_RING_SIZE))

\* the loop body with the backup edge merged instead of written: an edge to "0"
\* that exists already keeps its weight
MediumRingNode_KeepFirst(st, node_index, max_edges_per_node) ==
    LET node_str == Str(node_index)
        primary ==
            IF node_index < MEDIUM_RING_SIZE - 1
            THEN SetEdge(st, node_str, Str(node_index + 1), PRIMARY_WEIGHT)
            ELSE SetEdge(st, node_str, "0", MEDIUM_RING_LOOPBACK_WEIGHT)
        skip_target == SkipTarget(node_index)
        takes_skip == 1 < max_edges_per_node /\ skip_target # node_index
        skip ==
            IF takes_skip
            THEN SetEdge(primary, node_str, Str(skip_target), SECONDARY_WEIGHT)
            ELSE primary
        edges_added2 == IF takes_skip THEN 2 ELSE 1
    IN IF edges_added2 < max_edges_per_node /\ Returned(skip)
          /\ "0" \notin DOMAIN skip.value[node_str]
       THEN SetEdge(skip, node_str, "0", BACKUP_WEIGHT)
       ELSE skip

\* the loop body with the backup edge added before the skip edge
MediumRingNode_BackupFirst(st, node_index, max_edges_per_node) ==
    LET node_str == Str(node_index)
        primary ==
            IF node_index < MEDIUM_RING_SIZE - 1
            THEN SetEdge(st, node_str, Str(node_index + 1), PRIMARY_WEIGHT)
            ELSE SetEdge(st, node_str, "0", MEDIUM_RING_LOOPBACK_WEIGHT)
        backup ==
            IF 1 < max_edges_per_node
            THEN SetEdge(primary, node_str, "0", BACKUP_WEIGHT)
            ELSE primary
        edges_added2 == IF 1 < max_edges_per_node THEN 2 ELSE 1
        skip_target == SkipTarget(node_index)
    IN IF edges_added2 < max_edges_per_node /\ skip_target # node_index
       THEN SetEdge(backup, node_str, Str(skip_target), SECONDARY_WEIGHT)
       ELSE backup

\* body of the medium-ring loop, lines 224-247
MediumRingNode(st, node_index, max_edges_per_node) ==
    LET node_str == Str(node_index)
        primary ==
            IF node_index < MEDIUM_RING_SIZE - 1
            THEN SetEdge(st, node_str, Str(node_index + 1), PRIMARY_WEIGHT)
            ELSE SetEdge(st, node_str, "0", MEDIUM_RING_LOOPBACK_WEIGHT)
        edges_added1 == 1
        skip_target == SkipTarget(node_index)
        takes_skip == edges_added1 < max_edges_per_node /\ skip_target # node_index
        skip ==
            IF takes_skip
            THEN SetEdge(primary, node_str, Str(skip_target), SECONDARY_WEIGHT)
            ELSE primary
        edges_added2 == IF takes_skip THEN edges_added1 + 1 ELSE edges_added1
    IN IF edges_added2 < max_edges_per_node
       THEN SetEdge(skip, node_str, "0", BACKUP_WEIGHT)
       ELSE skip

\* for node_index in range(INNER_RING_SIZE, MEDIUM_RING_SIZE), from node_index on
RECURSIVE MediumRing(_, _, _)
MediumRing(st, node_index, max_edges_per_node) ==
    IF node_index >= MEDIUM_RING_SIZE \/ ~Returned(st) THEN st
    ELSE MediumRing(MediumRingNode(st, node_index, max_edges_per_node),
                    node_index + 1, max_edges_per_node)

\* body of the overflow loop, lines 254-255
OverflowNode(st, node_index) == SetEdge(st, Str(node_index), "0", PRIMARY_WEIGHT)

\* for node_index in range(MEDIUM_RING_SIZE, num_nodes), from node_index on
RECURSIVE Overflow(_, _, _)
Overflow(st, node_index, num_nodes) ==
    IF node_index >= num_nodes \/ ~Returned(st) THEN st
    ELSE Overflow(OverflowNode(st, node_index), node_index + 1, num_nodes)

\* lines 201 and 210-255: the three tiers written into the fresh graph
BuildRings(num_nodes, max_edges_per_node) ==
    Overflow(MediumRing(InnerRing(Return(FreshGraph(num_nodes)), 0),
                        INNER_RING_SIZE, max_edges_per_node),
             MEDIUM_RING_SIZE, num_nodes)

\* optimize_graph raising when the validation fails
OptimizeGraph_Strict(initial_graph_arg, results_arg, num_nodes, max_total_edges, max_edges_per_node) ==
    LET analysis == AnalyzeQueryPatterns(results_arg)
        built == BuildRings(num_nodes, max_edges_per_node)
        verdict == VerifyConstraints(built.value, max_edges_per_node, max_total_edges)
    IN IF ~Returned(analysis) THEN Raise(analysis.raised)
       ELSE IF ~Returned(built) THEN Raise(built.raised)
       ELSE IF max_total_edges = 0 THEN Raise("ZeroDivisionError")
       ELSE IF ~Returned(verdict) THEN Raise(verdict.raised)
       ELSE IF ~verdict.value THEN Raise("ValueError")
       ELSE [raised |-> "None", value |-> built.value, warning |-> FALSE]

\* The outcome of a call: the returned graph, with warning telling whether the
\* "Graph doesn't meet constraints" lines were printed, or the exception raised.
OptimizeGraph(initial_graph_arg, results_arg, num_nodes, max_total_edges, max_edges_per_node) ==
    LET analysis == AnalyzeQueryPatterns(results_arg)
        built == BuildRings(num_nodes, max_edges_per_node)
        verdict == VerifyConstraints(built.value, max_edges_per_node, max_total_edges)
    IN IF ~Returned(analysis) THEN Raise(analysis.raised)
       ELSE IF ~Returned(built) THEN Raise(built.raised)
       ELSE IF max_total_edges = 0 THEN Raise("ZeroDivisionError")  \* line 263
       ELSE IF ~Returned(verdict) THEN Raise(verdict.raised)
       ELSE [raised |-> "None", value |-> built.value, warning |-> ~verdict.value]

----------------------------------------------------------------------------
(* Bounds of the model and the inputs drawn within them. *)

MaxNumNodes == 52        \* num_nodes and NUM_NODES range up to this
MaxEdgesPerNode == 4     \* max_edges_per_node ranges over 0..MaxEdgesPerNode
MaxTarget == 2           \* query targets range over 0..MaxTarget
MaxLogLen == 4           \* length of an analysed results log
MaxGraphNodes == 2       \* node keys of a graph handed to verify_constraints

None == [none |-> TRUE]

\* results records: {"detailed_results": [{"target": t}, ...]}
ResultsOf(log) == [detailed_results |-> [i \in 1..Len(log) |-> [target |-> log[i]]]]

LogsUpTo(n) == UNION {[1..k -> 0..MaxTarget] : k \in 0..n}

\* the log of the analyzer's documented example
ExampleLog == <<0, 0, 1, 2, 2, 2>>

\* the results logs handed to optimize_graph: the empty one and two one-entry ones
BuilderResults == {ResultsOf(<< >>), ResultsOf(<<0>>), ResultsOf(<<MaxTarget>>)}

\* initial graphs: an empty one and a two-node one with an edge the builder never writes
InitialGraphs ==
    {FreshGraph(0), [FreshGraph(2) EXCEPT !["0"] = DictSet(EmptyDict, "1", 5)]}

\* max_total_edges: zero, one the three-edge layout exceeds, one it fits
TotalEdgesChoices == {0, 2 * MEDIUM_RING_SIZE, 4 * MEDIUM_RING_SIZE}

\* weights at and around the ends of the valid range (0, 10]
WeightChoices == {0, 10, 11}

EdgeDicts == UNION {[T -> WeightChoices] : T \in SUBSET {"0", "1"}}

\* graphs handed to verify_constraints: up to MaxGraphNodes node keys
ValidatorGraphs ==
    UNION {[K -> EdgeDicts] : K \in SUBSET {Str(i) : i \in 0..(MaxGraphNodes - 1)}}

----------------------------------------------------------------------------
(* The script, lines 274-302. *)

Emit(line) == stdout' = Append(stdout, line)
EmitAll(lines) == stdout' = stdout \o lines

FileStates(contents) ==
    {[state |-> "missing"], [state |-> "invalid"]}
        \cup {[state |-> "json", data |-> c] : c \in contents}

ScriptInit ==
    /\ NUM_NODES \in {0, MEDIUM_RING_SIZE - 1, MEDIUM_RING_SIZE, MaxNumNodes}
    /\ MAX_EDGES_PER_NODE \in {0, 1, 3}
    /\ MAX_TOTAL_EDGES \in {1, 4 * MEDIUM_RING_SIZE, 8 * MEDIUM_RING_SIZE + 1}
    /\ pc = "makedirs"
    /\ files \in [graph_file : FileStates(InitialGraphs),
                  results_file : FileStates(BuilderResults),
                  output_dir : {"ok", "blocked"},
                  output : {"writable", "unwritable"}]
    /\ initial_graph = None
    /\ results = None
    /\ optimized_graph = None
    /\ output_file = None
    /\ exit_code = {}
    /\ stdout = << >>
    /\ args = None /\ ret = None /\ args2 = None /\ ret2 = None

\* line 283, outside the try: an OSError here is not caught
MakeDirs ==
    /\ pc = "makedirs"
    /\ IF files.output_dir = "blocked"
       THEN pc' = "crashed" /\ exit_code' = {1}
       ELSE pc' = "load_graph" /\ UNCHANGED exit_code
    /\ UNCHANGED <<configVars, files, initial_graph, results, optimized_graph,
                   output_file, stdout, callVars>>

\* load_graph printing its diagnostic without re-raising: it returns None
LoadGraph_Swallow ==
    /\ pc = "load_graph"
    /\ CASE files.graph_file.state = "missing" ->
              /\ EmitAll(<<"Loading initial graph", "ERROR: Graph file not found">>)
              /\ initial_graph' = None
         [] files.graph_file.state = "invalid" ->
              /\ EmitAll(<<"Loading initial graph", "ERROR: Invalid JSON in graph file">>)
              /\ initial_graph' = None
         [] OTHER ->
              /\ Emit("Loading initial graph")
              /\ initial_graph' = files.graph_file.data
    /\ pc' = "load_results"
    /\ UNCHANGED <<configVars, files, results, optimized_graph, output_file,
                   exit_code, callVars>>

\* lines 286-287 and load_graph, lines 31-52
LoadGraph ==
    /\ pc = "load_graph"
    /\ CASE files.graph_file.state = "missing" ->
              /\ EmitAll(<<"Loading initial graph", "ERROR: Graph file not found">>)
              /\ pc' = "except"
              /\ UNCHANGED initial_graph
         [] files.graph_file.state = "invalid" ->
              /\ EmitAll(<<"Loading initial graph", "ERROR: Invalid JSON in graph file">>)
              /\ pc' = "except"
              /\ UNCHANGED initial_graph
         [] OTHER ->
              /\ Emit("Loading initial graph")
              /\ initial_graph' = files.graph_file.data
              /\ pc' = "load_results"
    /\ UNCHANGED <<configVars, files, results, optimized_graph, output_file,
                   exit_code, callVars>>

\* lines 289-290 and load_results, lines 55-76
LoadResults ==
    /\ pc = "load_results"
    /\ CASE files.results_file.state = "missing" ->
              /\ EmitAll(<<"Loading query results", "ERROR: Results file not found">>)
              /\ pc' = "except"
              /\ UNCHANGED results
         [] files.results_file.state = "invalid" ->
              /\ EmitAll(<<"Loading query results", "ERROR: Invalid JSON in results file">>)
              /\ pc' = "except"
              /\ UNCHANGED results
         [] OTHER ->
              /\ Emit("Loading query results")
              /\ results' = files.results_file.data
              /\ pc' = "optimize"
    /\ UNCHANGED <<configVars, files, initial_graph, optimized_graph, output_file,
                   exit_code, callVars>>

\* lines 292-293: optimize_graph(initial_graph, results) with the default arguments
Optimize ==
    /\ pc = "optimize"
    /\ LET outcome == OptimizeGraph(initial_graph, results, NUM_NODES,
                                    PyInt(MAX_TOTAL_EDGES), MAX_EDGES_PER_NODE)
       IN IF ~Returned(outcome)
          THEN /\ Emit("Optimizing graph...")
               /\ pc' = "except"
               /\ UNCHANGED optimized_graph
          ELSE /\ IF outcome.warning
                  THEN EmitAll(<<"Optimizing graph...",
                                  "WARNING: Graph doesn't meet constraints!">>)
                  ELSE Emit("Optimizing graph...")
               /\ optimized_graph' = outcome.value
               /\ pc' = "save"
    /\ UNCHANGED <<configVars, files, initial_graph, results, output_file,
                   exit_code, callVars>>

\* lines 295-296 and save_graph, lines 79-94
SaveGraph ==
    /\ pc = "save"
    /\ IF files.output = "unwritable"
       THEN /\ EmitAll(<<"Saving optimized graph", "ERROR: Could not save graph">>)
            /\ pc' = "except"
            /\ UNCHANGED output_file
       ELSE /\ Emit("Saving optimized graph")
            /\ output_file' = [indent |-> 2, data |-> optimized_graph]
            /\ pc' = "done"
    /\ UNCHANGED <<configVars, files, initial_graph, results, optimized_graph,
                   exit_code, callVars>>

\* line 298, and the script ends
Done ==
    /\ pc = "done"
    /\ Emit("Done!")
    /\ pc' = "finished"
    /\ exit_code' = {0}
    /\ UNCHANGED <<configVars, files, initial_graph, results, optimized_graph,
                   output_file, callVars>>

\* lines 300-302
Except ==
    /\ pc = "except"
    /\ Emit("ERROR: Optimization failed")
    /\ pc' = "exited"
    /\ exit_code' = {1}
    /\ UNCHANGED <<configVars, files, initial_graph, results, optimized_graph,
                   output_file, callVars>>

Next == MakeDirs \/ LoadGraph \/ LoadResults \/ Optimize \/ SaveGraph \/ Done \/ Except

Spec == ScriptInit /\ [][Next]_vars

----------------------------------------------------------------------------
(* Calls of the three functions on inputs drawn within the bounds. *)

CallInit ==
    /\ MAX_EDGES_PER_NODE = 3
    /\ MAX_TOTAL_EDGES = 8 * MEDIUM_RING_SIZE
    /\ pc = "call"
    /\ files = None /\ initial_graph = None /\ results = None
    /\ optimized_graph = None /\ output_file = None
    /\ exit_code = {} /\ stdout = << >>
    /\ args = None /\ ret = None /\ args2 = None /\ ret2 = None

OptimizeInit == CallInit /\ NUM_NODES = MEDIUM_RING_SIZE

CallOptimizeGraph ==
    /\ pc = "call"
    /\ \E ig \in InitialGraphs, r \in BuilderResults, n \in 0..MaxNumNodes,
          mte \in TotalEdgesChoices, mepn \in 0..MaxEdgesPerNode :
          /\ args' = [initial_graph |-> ig, results |-> r, num_nodes |-> n,
                      max_total_edges |-> mte, max_edges_per_node |-> mepn]
          /\ ret' = OptimizeGraph(ig, r, n, mte, mepn)
    /\ pc' = "called"
    /\ UNCHANGED <<configVars, scriptVars, args2, ret2>>

\* a second call: same num_nodes, max_total_edges and max_edges_per_node
CallOptimizeGraphAgain ==
    /\ pc = "called"
    /\ \E ig \in InitialGraphs, r \in BuilderResults :
          /\ args2' = [args EXCEPT !.initial_graph = ig, !.results = r]
          /\ ret2' = OptimizeGraph(ig, r, args.num_nodes, args.max_total_edges,
                                   args.max_edges_per_node)
    /\ pc' = "called twice"
    /\ UNCHANGED <<configVars, scriptVars, args, ret>>

OptimizeNext == CallOptimizeGraph \/ CallOptimizeGraphAgain

SpecOptimize == OptimizeInit /\ [][OptimizeNext]_vars

VerifyInit == CallInit /\ NUM_NODES \in 0..MaxGraphNodes

CallVerifyConstraints ==
    /\ pc = "call"
    /\ \E g \in ValidatorGraphs, mepn \in 0..2, mte \in {0, MaxGraphNodes, 2 * MaxGraphNodes} :
          /\ args' = [graph |-> g, max_edges_per_node |-> mepn, max_total_edges |-> mte]
          /\ ret' = VerifyConstraints(g, mepn, mte)
    /\ pc' = "called"
    /\ UNCHANGED <<configVars, scriptVars, args2, ret2>>

VerifyNext == CallVerifyConstraints

SpecVerify == VerifyInit /\ [][VerifyNext]_vars

AnalyzeInit == CallInit /\ NUM_NODES = MEDIUM_RING_SIZE

CallAnalyzeQueryPatterns ==
    /\ pc = "call"
    /\ \E log \in LogsUpTo(MaxLogLen) \cup {ExampleLog} :
          /\ args' = [results |-> ResultsOf(log)]
          /\ ret' = AnalyzeQueryPatterns(ResultsOf(log))
    /\ pc' = "called"
    /\ UNCHANGED <<configVars, scriptVars, args2, ret2>>

AnalyzeNext == CallAnalyzeQueryPatterns

SpecAnalyze == AnalyzeInit /\ [][AnalyzeNext]_vars

----------------------------------------------------------------------------
(* Properties of optimize_graph, checked under SpecOptimize. *)

OptimizeReturned == pc # "call" /\ Returned(ret)

\* the results log of the first call is not empty and max_total_edges is not
\* zero: neither the analyzer's max() nor the utilisation division raises
AnalysisAndLoggingPass ==
    /\ pc # "call"
    /\ args.results.detailed_results # << >>
    /\ args.max_total_edges # 0

\* C1: every node of the returned graph has at most max_edges_per_node
\* outgoing edges, whatever num_nodes and max_edges_per_node are.
C1_EdgeCountWithinBudget ==
    OptimizeReturned =>
        \A node \in DOMAIN ret.value :
            DictLen(ret.value[node]) <= args.max_edges_per_node

\* C2: for every num_nodes >= 0 the call returns a graph whose key set is
\* exactly the numerals of 0 .. num_nodes-1, also below the ring boundaries.
C2_KeySetExact ==
    AnalysisAndLoggingPass =>
        /\ Returned(ret)
        /\ DOMAIN ret.value = {Str(i) : i \in 0..(args.num_nodes - 1)}

\* C7: two calls with the same num_nodes, max_total_edges and
\* max_edges_per_node return identical graphs for any two initial graphs and
\* any two results logs, the empty log included: when one of them returns a
\* graph, the other returns the same graph.
C7_ResultIndependentOfInputs ==
    (pc = "called twice" /\ (Returned(ret) \/ Returned(ret2))) =>
        /\ Returned(ret) /\ Returned(ret2)
        /\ ret.value = ret2.value

C10_MediumRingEdges ==
    OptimizeReturned =>
        /\ \A i \in 10..48 :
            LET s == 10 + ((i - 10 + 3) % 40)
                one == Str(i + 1) :> 10
                two == one @@ (Str(s) :> 8)
                three == two @@ ("0" :> 1)
                edges == ret.value[Str(i)]
            IN /\ s # i /\ s # i + 1 /\ s # 0 /\ s \in 10..49
               /\ args.max_edges_per_node = 1 => edges = one
               /\ args.max_edges_per_node = 2 => edges = two /\ DictLen(edges) = 2
               /\ args.max_edges_per_node >= 3 => edges = three /\ DictLen(edges) = 3
        /\ args.max_edges_per_node = 2 =>
            /\ ret.value["47"] = ("48" :> 10) @@ ("10" :> 8)
            /\ ret.value["48"] = ("49" :> 10) @@ ("11" :> 8)

C10_Witness ==
    /\ OptimizeReturned
    /\ args.max_edges_per_node = 2
    /\ ret.value["47"] = ("48" :> 10) @@ ("10" :> 8)

----------------------------------------------------------------------------
(* Properties of verify_constraints, checked under SpecVerify. *)

\* the four checks, stated on the graph as a set of edges
EdgesOf(graph) == UNION {{<<n, t>> : t \in DOMAIN graph[n]} : n \in DOMAIN graph}

AllFourChecksPass(graph, max_edges_per_node, max_total_edges) ==
    /\ Cardinality(EdgesOf(graph)) <= max_total_edges
    /\ \A n \in DOMAIN graph : Cardinality(DOMAIN graph[n]) <= max_edges_per_node
    /\ Cardinality(DOMAIN graph) = NUM_NODES
    /\ \A e \in EdgesOf(graph) : 0 < graph[e[1]][e[2]] /\ graph[e[1]][e[2]] <= 10

\* C3: on a graph with at least one node key, verify_constraints returns true
\* exactly when all four checks pass, and false when any of them fails.
C3_VerifyIffAllChecks ==
    (pc = "called" /\ DOMAIN args.graph # {}) =>
        /\ Returned(ret)
        /\ ret.value = AllFourChecksPass(args.graph, args.max_edges_per_node,
                                         args.max_total_edges)

C3_Witness ==
    /\ pc = "called"
    /\ Cardinality(EdgesOf(args.graph)) = 2
    /\ Returned(ret)
    /\ ret.value

\* C4: on every graph, one without node keys included, verify_constraints
\* answers with a boolean and never raises.
C4_VerifyNeverRaises ==
    pc = "called" => Returned(ret) /\ ret.value \in BOOLEAN

----------------------------------------------------------------------------
(* Properties of analyze_query_patterns, checked under SpecAnalyze. *)

Occurrences(log, t) == Cardinality({i \in 1..Len(log) : log[i] = t})
FirstIndex(log, t) == CHOOSE i \in 1..Len(log) : log[i] = t /\ \A j \in 1..(i - 1) : log[j] # t
Elems(seq) == {seq[i] : i \in 1..Len(seq)}

\* C9: on a non-empty log the frequency table gives each target its number
\* of occurrences; the high-value list holds exactly the targets with count
\* >= 2, by count descending, ties in order of first occurrence; the third
\* result is the largest target; for [0,0,1,2,2,2] the table is
\* {0:2, 1:1, 2:3} and the list [2,0].
C9_AnalyzerResult ==
    (pc = "called" /\ args.results.detailed_results # << >>) =>
        LET log == [i \in 1..Len(args.results.detailed_results) |->
                        args.results.detailed_results[i].target]
            freq == ret.value.target_frequencies
            hv == ret.value.high_value_targets
        IN /\ Returned(ret)
           /\ Elems(freq) = {<<t, Occurrences(log, t)>> : t \in Elems(log)}
           /\ Len(freq) = Cardinality(Elems(log))
           /\ Elems(hv) = {t \in Elems(log) : Occurrences(log, t) >= 2}
           /\ \A i, j \in 1..Len(hv) :
                i < j =>
                    \/ Occurrences(log, hv[i]) > Occurrences(log, hv[j])
                    \/ /\ Occurrences(log, hv[i]) = Occurrences(log, hv[j])
                       /\ FirstIndex(log, hv[i]) < FirstIndex(log, hv[j])
           /\ ret.value.max_queried_node \in Elems(log)
           /\ \A t \in Elems(log) : t <= ret.value.max_queried_node
           /\ log = ExampleLog =>
                /\ Elems(freq) = {<<0, 2>>, <<1, 1>>, <<2, 3>>}
                /\ hv = <<2, 0>>

\* a tie between two high-value targets, the larger target met first
C9_Witness ==
    /\ pc = "called"
    /\ Returned(ret)
    /\ Len(ret.value.high_value_targets) = 2
    /\ ret.value.high_value_targets[1] > ret.value.high_value_targets[2]
    /\ ret.value.target_frequencies[1][2] = ret.value.target_frequencies[2][2]

----------------------------------------------------------------------------
(* Properties of the script, checked under Spec. *)

Printed(line) == \E i \in 1..Len(stdout) : stdout[i] = line

StepOrder == <<"Loading initial graph", "Loading query results",
               "Optimizing graph...", "Saving optimized graph", "Done!">>

IsStepLine(line) == \E i \in 1..Len(StepOrder) : StepOrder[i] = line

StepsPrinted == SelectSeq(stdout, IsStepLine)

\* at the build step: the rings are built and verify_constraints returns,
\* true or false
ValidationReturns ==
    LET built == BuildRings(NUM_NODES, MAX_EDGES_PER_NODE)
    IN /\ pc = "optimize"
       /\ Returned(AnalyzeQueryPatterns(results))
       /\ Returned(built)
       /\ PyInt(MAX_TOTAL_EDGES) # 0
       /\ Returned(VerifyConstraints(built.value, MAX_EDGES_PER_NODE,
                                     PyInt(MAX_TOTAL_EDGES)))

\* C5: once both loads succeeded and the graph is built, the script goes on to
\* save_graph with the built graph whether validation passed or failed; a
\* failed validation never leads to exit code 1.
C5_SavedWhateverValidationSays ==
    /\ [][ValidationReturns =>
            /\ pc' = "save"
            /\ optimized_graph' = BuildRings(NUM_NODES, MAX_EDGES_PER_NODE).value
            /\ exit_code' = {}]_vars
    /\ [][(pc = "save" /\ files.output = "writable") =>
            /\ output_file'.data = optimized_graph
            /\ pc' = "done"]_vars
    /\ [](exit_code = {1} /\ Printed("WARNING: Graph doesn't meet constraints!")
            => Printed("ERROR: Could not save graph"))

C5_Witness ==
    /\ pc = "finished"
    /\ Printed("WARNING: Graph doesn't meet constraints!")
    /\ output_file.data = optimized_graph
    /\ exit_code = {0}

\* the step about to run raises
StepRaises ==
    \/ pc = "load_graph" /\ files.graph_file.state # "json"
    \/ pc = "load_results" /\ files.results_file.state # "json"
    \/ /\ pc = "optimize"
       /\ ~Returned(OptimizeGraph(initial_graph, results, NUM_NODES,
                                  PyInt(MAX_TOTAL_EDGES), MAX_EDGES_PER_NODE))
    \/ pc = "save" /\ files.output = "unwritable"

\* C6: the steps run in the order load graph, load results, build, save;
\* when one of them raises no later step runs, nothing is saved by the
\* handler and the process exits with code 1; "Done" follows a successful
\* save only.
C6_PipelineOrderAndExit ==
    /\ [](\E k \in 0..Len(StepOrder) : StepsPrinted = SubSeq(StepOrder, 1, k))
    /\ [][StepRaises => pc' = "except" /\ output_file' = output_file]_vars
    /\ [][pc = "except" =>
            /\ pc' = "exited" /\ exit_code' = {1}
            /\ StepsPrinted' = StepsPrinted
            /\ output_file' = output_file]_vars
    /\ [][pc # "exited"]_vars
    /\ [](pc = "except" => output_file = None)
    /\ [](Printed("Done!") =>
            /\ exit_code = {0}
            /\ Printed("Saving optimized graph")
            /\ output_file # None
            /\ output_file.data = optimized_graph)
    /\ [](exit_code = {1} => ~Printed("Done!"))

C6_Witness ==
    /\ pc = "exited"
    /\ exit_code = {1}
    /\ Printed("ERROR: Results file not found")
    /\ ~Printed("Optimizing graph...")
    /\ output_file = None

====
